---- MODULE Spec2Model ----
(***************************************************************************)
(* Row virtualization of fixed-data-table-2: the reducer                   *)
(* computeRenderedRows (src/src/reducers/computeRenderedRows.js).           *)
(*                                                                         *)
(* A table session owns a slot pool (bufferSet), the measured row heights  *)
(* (storedHeights, with the prefix sums rowOffsets over them) and the last *)
(* returned state.  Every dispatch calls computeRenderedRows(state,        *)
(* scrollAnchor) on the state the previous call returned.                  *)
(*                                                                         *)
(* Spec is such a session on a table of MaxRows rows of alternating        *)
(* heights; SpecCall is the first call on any table of up to MaxRows rows.  *)
(*                                                                         *)
(* bufferSet (IntegerBufferSet), rowOffsets.sumUntil, updateRowHeight and   *)
(* the selectors roughHeights, scrollbarsVisible and tableHeights are not   *)
(* in the source tree; they follow the specification (sections 4.2 and 6). *)
(*                                                                         *)
(* Heights are small integers (pixels in the program).  JavaScript's       *)
(* undefined / null are the value Undefined (-1), which no index, slot or  *)
(* offset of the program takes.                                            *)
(***************************************************************************)
EXTENDS Integers, Sequences, FiniteSets, TLC

\* ---- bounds of the model -------------------------------------------------
MaxRows == 4
\* row heights returned by rowHeightGetter are in 1..MaxHeight
MaxHeight == 2
\* maxAvailableHeight (roughHeights) is at most MaxViewport
MaxViewport == 4
\* availableHeight = maxAvailableHeight - (0..MaxScrollbar), when positive
MaxScrollbar == 2
\* bufferRowCount is in 0..MaxBufferRows
MaxBufferRows == 1
\* firstOffset of an anchor is in -MaxOffset..0
MaxOffset == 1
\* a table emptied of its rows still holds up to MaxLeftover rendered rows
MaxLeftover == 2

Undefined == -1

\* the element of a singleton set: { F(x) : x \in {e} } computes e once
Only(S) == CHOOSE x \in S : TRUE

Min(a, b) == IF a <= b THEN a ELSE b
Max(a, b) == IF a >= b THEN a ELSE b

VARIABLES
  rowsCount,          \* state.rowSettings.rowsCount
  rowHeightGetter,    \* state.rowSettings.rowHeightGetter: row -> height
  bufferRowCount,     \* roughHeights(state).bufferRowCount
  maxAvailableHeight, \* roughHeights(state).maxAvailableHeight
  availableHeight,    \* scrollbarsVisible(state).availableHeight
  storedHeights,      \* state.storedHeights, shared by reference
  bufferSet,          \* state.bufferSet, shared by reference
  newState,           \* the state object the last call returned
  rowsShared,         \* newState.rows is the very array of the state passed in
  scrollAnchor,       \* the anchor of the last call
  rowRange,           \* the row range the last call rendered
  resolved,           \* what the last calculateRenderedRowRange of the call computed
  retained,           \* <<row, slot>> of the rows of the range before and of the new one
  twice,              \* what the same call returns when made once more
  measured,           \* the last call changed a stored height
  slots               \* what the allocator did in the last call: evicted, unfound

vars == <<rowsCount, rowHeightGetter, bufferRowCount, maxAvailableHeight,
          availableHeight, storedHeights, bufferSet, newState, rowsShared,
          scrollAnchor, rowRange, resolved, retained, twice, measured, slots>>

Rows == 0 .. (rowsCount - 1)

\* the row indices a slot pool or an object of offsets can be keyed by
RowKeys == 0 .. MaxRows

\* ---- JavaScript values ---------------------------------------------------

\* A sparse array is a sequence whose holes read Undefined; slot p is index p+1.
EmptyArray == << >>

\* a variant that writes one slot further
ArraySetNext(array, position, value) ==
  [i \in 1 .. Max(Len(array), position + 2) |->
     IF i = position + 2 THEN value
     ELSE IF i <= Len(array) THEN array[i]
     ELSE Undefined]

\* array[position] = value: the array grows, leaving holes, when position is past its end
ArraySet(array, position, value) ==
  [i \in 1 .. Max(Len(array), position + 1) |->
     IF i = position + 1 THEN value
     ELSE IF i <= Len(array) THEN array[i]
     ELSE Undefined]

\* the row indices an array holds
ArrayValues(array) == {array[i] : i \in 1 .. Len(array)} \ {Undefined}

\* an object keyed by row index; a missing key reads Undefined
EmptyObject == [r \in RowKeys |-> Undefined]

\* the keys an object holds
Keys(object) == {r \in DOMAIN object : object[r] # Undefined}

\* lodash clamp(number, lower, upper): baseClamp applies the upper bound first
clamp(number, lower, upper) ==
  LET n1 == IF number <= upper THEN number ELSE upper
  IN IF n1 >= lower THEN n1 ELSE lower

\* a variant that counts end as in range
inRangeClosed(number, start, end) ==
  number # Undefined /\ number >= start /\ number <= end

\* lodash inRange(number, start, end) for start <= end, applied to row indices
inRange(number, start, end) ==
  number # Undefined /\ number >= start /\ number < end

\* ---- collaborators -------------------------------------------------------

\* PrefixSumIndex.sumUntil(idx): cumulative stored height of rows [0, idx)
RECURSIVE sumUntil(_, _)
sumUntil(heights, idx) ==
  IF idx <= 0 THEN 0 ELSE sumUntil(heights, idx - 1) + heights[idx - 1]

\* updateRowHeight(state, rowIdx): measure the row, cache its height, keep the
\* prefix sums and scrollContentHeight in step, return the height
updateRowHeight(s, rowIdx) ==
  LET newHeight == rowHeightGetter[rowIdx]
      oldHeight == s.storedHeights[rowIdx]
  IN [state |-> IF newHeight # oldHeight
                THEN [s EXCEPT !.storedHeights[rowIdx] = newHeight,
                               !.scrollContentHeight = @ + newHeight - oldHeight]
                ELSE s,
      height |-> newHeight]

\* tableHeights(state).bodyHeight: the space for rows shrinks to the content
bodyHeightOf(s) == Min(availableHeight, s.scrollContentHeight)

\* SlotAllocator: bufferSet maps a row index to its slot, or to Undefined
getValuePosition(bs, value) == bs[value]

Occupants(bs) == {r \in DOMAIN bs : bs[r] # Undefined}

getSize(bs) == Cardinality(Occupants(bs))

\* allocateFresh: binds a previously unused slot (the lowest) to value
getNewPositionForValue(bs, value) ==
  Only({[bufferSet |-> [bs EXCEPT ![value] = position], position |-> position] :
        position \in {CHOOSE p \in 0 .. getSize(bs) :
                        /\ \A r \in Occupants(bs) : bs[r] # p
                        /\ \A q \in 0 .. (p - 1) : \E r \in Occupants(bs) : bs[r] = q}})

Distance(idx, lowValue, highValue) ==
  Max(Max(lowValue - idx, idx - highValue), 0)

\* the occupant that evictFurthestOutside picks among the candidates: the one
\* furthest from [lowValue, highValue], ties to the smaller row index
Furthest(candidates, lowValue, highValue) ==
  CHOOSE r \in candidates : \A q \in candidates :
    \/ Distance(r, lowValue, highValue) > Distance(q, lowValue, highValue)
    \/ /\ Distance(r, lowValue, highValue) = Distance(q, lowValue, highValue)
       /\ r <= q

\* evictFurthestOutside: among the occupants outside [lowValue, highValue] the
\* furthest gives its slot to newValue; none when every occupant is inside
replaceFurthestValuePosition(bs, lowValue, highValue, newValue) ==
  Only({IF outside = {}
        THEN [bufferSet |-> bs, position |-> Undefined]
        ELSE Only({[bufferSet |-> [bs EXCEPT ![victim] = Undefined, ![newValue] = bs[victim]],
                    position |-> bs[victim]] :
                   victim \in {Furthest(outside, lowValue, highValue)}}) :
        outside \in {{r \in Occupants(bs) : r < lowValue \/ r > highValue}}})

\* ---- calculateRenderedRowRange -------------------------------------------

\* the loop that walks the viewport until enough rows are touched to fill it
RECURSIVE WalkViewport(_, _, _, _, _)
WalkViewport(s, rowIdx, endIdx, totalHeight, step) ==
  IF rowIdx < rowsCount /\ rowIdx >= 0 /\ totalHeight < maxAvailableHeight
  THEN Only({WalkViewport(u.state, rowIdx + step, rowIdx, totalHeight + u.height, step) :
             u \in {updateRowHeight(s, rowIdx)}})
  ELSE [state |-> s, endIdx |-> endIdx, totalHeight |-> totalHeight]

\* the loops that walk the leading and the trailing buffer: rows [rowIdx, end)
RECURSIVE WalkBuffer(_, _, _)
WalkBuffer(s, rowIdx, end) ==
  IF rowIdx < end
  THEN Only({WalkBuffer(u.state, rowIdx + 1, end) : u \in {updateRowHeight(s, rowIdx)}})
  ELSE s

\* the offset that puts the last row at the bottom of the viewport, and the step
\* past a first row that this offset puts fully offscreen
LastRowOffset(heights, firstViewportIdx, totalHeight) ==
  LET firstOffset == Min(availableHeight - totalHeight, 0)
  IN IF -1 * firstOffset >= heights[firstViewportIdx]
     THEN [firstViewportIdx |-> firstViewportIdx + 1,
           firstOffset |-> firstOffset + heights[firstViewportIdx + 1]]
     ELSE [firstViewportIdx |-> firstViewportIdx, firstOffset |-> firstOffset]

EmptyRange ==
  [endBufferIdx |-> 0, endViewportIdx |-> 0, firstBufferIdx |-> 0, firstViewportIdx |-> 0]

\* the first row of the viewport walked from startIdx to endIdx
FirstViewportIdx(startIdx, endIdx) == Min(startIdx, endIdx)

\* a variant that starts the leading buffer one row earlier
FirstBufferIdxOneMore(firstViewportIdx) == Max(firstViewportIdx - bufferRowCount - 1, 0)

\* where the leading buffer starts and where the trailing buffer ends
FirstBufferIdx(firstViewportIdx) == Max(firstViewportIdx - bufferRowCount, 0)

\* a variant that takes rowsCount - 1, the last row, for the end of the table
EndBufferIdxLastRow(endViewportIdx) == Min(endViewportIdx + bufferRowCount, rowsCount - 1)

EndBufferIdx(endViewportIdx) == Min(endViewportIdx + bufferRowCount, rowsCount)

\* a variant that already treats the last row as an index past the end
LastIndexFromLastRow(anchor) ==
  IF anchor.firstIndex >= rowsCount - 1 \/ anchor.lastIndex >= rowsCount
  THEN rowsCount - 1 ELSE anchor.lastIndex

\* a first or last index past the end stands for: the last row at the bottom
LastIndex(anchor) ==
  IF anchor.firstIndex >= rowsCount \/ anchor.lastIndex >= rowsCount
  THEN rowsCount - 1 ELSE anchor.lastIndex

\* the part of calculateRenderedRowRange after the viewport walk w from startIdx
ResolveRange(w, startIdx, anchor, lastIndex) ==
  LET walkedFirstIdx == FirstViewportIdx(startIdx, w.endIdx)
      firstBufferIdx == FirstBufferIdx(walkedFirstIdx)
      endViewportIdx == Max(startIdx, w.endIdx) + 1
      endBufferIdx == EndBufferIdx(endViewportIdx)
  IN Only({
       Only({[state |-> [s2 EXCEPT !.firstRowIndex = first.firstViewportIdx,
                                   !.firstRowOffset = first.firstOffset],
              rowRange |-> [endBufferIdx |-> endBufferIdx,
                            endViewportIdx |-> endViewportIdx,
                            firstBufferIdx |-> firstBufferIdx,
                            firstViewportIdx |-> first.firstViewportIdx],
              lastIndex |-> lastIndex,
              totalHeight |-> w.totalHeight,
              walkedFirstIdx |-> walkedFirstIdx] :
             first \in {IF lastIndex # Undefined
                        THEN LastRowOffset(s2.storedHeights, walkedFirstIdx, w.totalHeight)
                        ELSE [firstViewportIdx |-> walkedFirstIdx,
                              firstOffset |-> anchor.firstOffset]}}) :
       s2 \in {WalkBuffer(WalkBuffer(w.state, firstBufferIdx, walkedFirstIdx),
                          endViewportIdx, endBufferIdx)}})

\* returns the state it has written to, the row range, and lastIndex, totalHeight
\* and the first walked row as they stand at its end
calculateRenderedRowRange(s, anchor) ==
  IF rowsCount = 0
  THEN [state |-> s, rowRange |-> EmptyRange,
        lastIndex |-> Undefined, totalHeight |-> 0, walkedFirstIdx |-> 0]
  ELSE
    LET lastIndex == LastIndex(anchor)
        backward == lastIndex # Undefined
        startIdx == IF backward THEN lastIndex ELSE anchor.firstIndex
    IN Only({ResolveRange(w, startIdx, anchor, lastIndex) :
             w \in {WalkViewport(s, startIdx, startIdx,
                                 IF backward THEN 0 ELSE anchor.firstOffset,
                                 IF backward THEN -1 ELSE 1)}})

\* ---- computeRenderedRowOffsets ------------------------------------------

\* a variant that takes the pool for full only once it holds more rows than
\* maxBufferSize
addRowToBufferPastFull(rowIdx, bs, startRange, endRange, maxBufferSize) ==
  Only({IF evicted.position = Undefined
        THEN getNewPositionForValue(evicted.bufferSet, rowIdx)
        ELSE evicted :
        evicted \in {IF getValuePosition(bs, rowIdx) = Undefined
                        /\ getSize(bs) > maxBufferSize
                     THEN replaceFurthestValuePosition(bs, startRange, endRange - 1, rowIdx)
                     ELSE [bufferSet |-> bs, position |-> getValuePosition(bs, rowIdx)]}})

\* the row keeps its slot, or takes over the slot of the occupant furthest outside
\* [startRange, endRange - 1] when the pool is full, or gets a new slot
addRowToBuffer(rowIdx, bs, startRange, endRange, maxBufferSize) ==
  Only({IF evicted.position = Undefined
        THEN getNewPositionForValue(evicted.bufferSet, rowIdx)
        ELSE evicted :
        evicted \in {IF getValuePosition(bs, rowIdx) = Undefined
                        /\ getSize(bs) >= maxBufferSize
                     THEN replaceFurthestValuePosition(bs, startRange, endRange - 1, rowIdx)
                     ELSE [bufferSet |-> bs, position |-> getValuePosition(bs, rowIdx)]}})

\* a variant that also skips the first row of the viewport when it skips the
\* buffer rows
WalkRowSkipFirst(acc, rowIdx, range, heights, computeWithinViewportOnly) ==
  LET offsets == [acc.rowOffsetsCache EXCEPT ![rowIdx] = acc.runningOffset]
      running == acc.runningOffset + heights[rowIdx]
  IN IF computeWithinViewportOnly
        /\ (rowIdx <= range.firstViewportIdx \/ rowIdx >= range.endViewportIdx)
     THEN [acc EXCEPT !.rowOffsetsCache = offsets, !.runningOffset = running]
     ELSE Only({[bufferSet |-> a.bufferSet,
                 bufferMapping |-> ArraySet(acc.bufferMapping, a.position, rowIdx),
                 rowOffsetsCache |-> offsets,
                 runningOffset |-> running,
                 evicted |-> acc.evicted \cup (Occupants(acc.bufferSet) \ Occupants(a.bufferSet)),
                 unfound |-> \/ acc.unfound
                             \/ /\ getSize(a.bufferSet) > getSize(acc.bufferSet)
                                /\ getSize(acc.bufferSet)
                                     >= range.endBufferIdx - range.firstBufferIdx] :
                a \in {addRowToBuffer(rowIdx, acc.bufferSet, range.firstViewportIdx,
                                      range.endViewportIdx,
                                      range.endBufferIdx - range.firstBufferIdx)}})

\* a variant that records the offset of a row after adding its height
WalkRowOffsetAfter(acc, rowIdx, range, heights, computeWithinViewportOnly) ==
  LET offsets == [acc.rowOffsetsCache EXCEPT ![rowIdx] = acc.runningOffset + heights[rowIdx]]
      running == acc.runningOffset + heights[rowIdx]
  IN IF computeWithinViewportOnly
        /\ (rowIdx < range.firstViewportIdx \/ rowIdx >= range.endViewportIdx)
     THEN [acc EXCEPT !.rowOffsetsCache = offsets, !.runningOffset = running]
     ELSE Only({[bufferSet |-> a.bufferSet,
                 bufferMapping |-> ArraySet(acc.bufferMapping, a.position, rowIdx),
                 rowOffsetsCache |-> offsets,
                 runningOffset |-> running,
                 evicted |-> acc.evicted \cup (Occupants(acc.bufferSet) \ Occupants(a.bufferSet)),
                 unfound |-> \/ acc.unfound
                             \/ /\ getSize(a.bufferSet) > getSize(acc.bufferSet)
                                /\ getSize(acc.bufferSet)
                                     >= range.endBufferIdx - range.firstBufferIdx] :
                a \in {addRowToBuffer(rowIdx, acc.bufferSet, range.firstViewportIdx,
                                      range.endViewportIdx,
                                      range.endBufferIdx - range.firstBufferIdx)}})

\* one turn of the loop for row rowIdx: acc holds bufferSet, bufferMapping,
\* rowOffsetsCache and runningOffset, and what the allocator was seen to do:
\* evicted, the rows that lost their slot, and unfound, a row that found the pool
\* full and no occupant to evict
WalkRow(acc, rowIdx, range, heights, computeWithinViewportOnly) ==
  LET offsets == [acc.rowOffsetsCache EXCEPT ![rowIdx] = acc.runningOffset]
      running == acc.runningOffset + heights[rowIdx]
  IN IF computeWithinViewportOnly
        /\ (rowIdx < range.firstViewportIdx \/ rowIdx >= range.endViewportIdx)
     THEN [acc EXCEPT !.rowOffsetsCache = offsets, !.runningOffset = running]
     ELSE Only({[bufferSet |-> a.bufferSet,
                 bufferMapping |-> ArraySet(acc.bufferMapping, a.position, rowIdx),
                 rowOffsetsCache |-> offsets,
                 runningOffset |-> running,
                 evicted |-> acc.evicted \cup (Occupants(acc.bufferSet) \ Occupants(a.bufferSet)),
                 unfound |-> \/ acc.unfound
                             \/ /\ getSize(a.bufferSet) > getSize(acc.bufferSet)
                                /\ getSize(acc.bufferSet)
                                     >= range.endBufferIdx - range.firstBufferIdx] :
                a \in {addRowToBuffer(rowIdx, acc.bufferSet, range.firstViewportIdx,
                                      range.endViewportIdx,
                                      range.endBufferIdx - range.firstBufferIdx)}})

\* the loop over rows [rowIdx, endBufferIdx)
RECURSIVE WalkRows(_, _, _, _, _)
WalkRows(acc, rowIdx, range, heights, computeWithinViewportOnly) ==
  IF rowIdx < range.endBufferIdx
  THEN Only({WalkRows(next, rowIdx + 1, range, heights, computeWithinViewportOnly) :
             next \in {WalkRow(acc, rowIdx, range, heights, computeWithinViewportOnly)}})
  ELSE acc

\* a variant that keeps the previous offset of every row outside the range
CarryOverAll(rowOffsetsCache, bufferMapping, range, rowHeights) ==
  [r \in DOMAIN rowOffsetsCache |->
     IF ~inRange(r, range.firstBufferIdx, range.endBufferIdx)
     THEN rowHeights[r]
     ELSE rowOffsetsCache[r]]

\* the rows still in the mapping but outside the range keep their previous offset
CarryOver(rowOffsetsCache, bufferMapping, range, rowHeights) ==
  [r \in DOMAIN rowOffsetsCache |->
     IF r \in ArrayValues(bufferMapping)
        /\ ~inRange(r, range.firstBufferIdx, range.endBufferIdx)
     THEN rowHeights[r]
     ELSE rowOffsetsCache[r]]

\* a variant without the case of the empty range
computeRenderedRowOffsetsAnyRange(s, range, computeWithinViewportOnly) ==
  Only({[state |-> [s EXCEPT !.rowHeights =
                                 IF computeWithinViewportOnly
                                 THEN CarryOver(acc.rowOffsetsCache, acc.bufferMapping,
                                                range, s.rowHeights)
                                 ELSE acc.rowOffsetsCache,
                               !.rows = acc.bufferMapping,
                               !.bufferSet = acc.bufferSet],
           rowsShared |-> computeWithinViewportOnly,
           evicted |-> acc.evicted, unfound |-> acc.unfound] :
          acc \in {WalkRows(
                     [bufferSet |-> s.bufferSet,
                      bufferMapping |-> IF computeWithinViewportOnly THEN s.rows
                                        ELSE EmptyArray,
                      rowOffsetsCache |-> EmptyObject,
                      runningOffset |-> sumUntil(s.storedHeights, range.firstBufferIdx),
                      evicted |-> {}, unfound |-> FALSE],
                     range.firstBufferIdx, range, s.storedHeights,
                     computeWithinViewportOnly)}})

\* returns the state with rows, rowHeights and bufferSet updated; rowsShared says
\* that the rows array returned is the array the state had on entry, written into
computeRenderedRowOffsets(s, range, computeWithinViewportOnly) ==
  IF range.endBufferIdx - range.firstBufferIdx = 0
  THEN [state |-> [s EXCEPT !.rowHeights = EmptyObject, !.rows = EmptyArray],
        rowsShared |-> FALSE, evicted |-> {}, unfound |-> FALSE]
  ELSE
    Only({[state |-> [s EXCEPT !.rowHeights =
                                 IF computeWithinViewportOnly
                                 THEN CarryOver(acc.rowOffsetsCache, acc.bufferMapping,
                                                range, s.rowHeights)
                                 ELSE acc.rowOffsetsCache,
                               !.rows = acc.bufferMapping,
                               !.bufferSet = acc.bufferSet],
           rowsShared |-> computeWithinViewportOnly,
           evicted |-> acc.evicted, unfound |-> acc.unfound] :
          acc \in {WalkRows(
                     [bufferSet |-> s.bufferSet,
                      bufferMapping |-> IF computeWithinViewportOnly THEN s.rows
                                        ELSE EmptyArray,
                      rowOffsetsCache |-> EmptyObject,
                      runningOffset |-> sumUntil(s.storedHeights, range.firstBufferIdx),
                      evicted |-> {}, unfound |-> FALSE],
                     range.firstBufferIdx, range, s.storedHeights,
                     computeWithinViewportOnly)}})

\* ---- computeRenderedRows -------------------------------------------------

\* the anchor of the second resolution, when everything fits and rows are cut off
FitAnchor ==
  [firstIndex |-> Undefined, firstOffset |-> 0, lastIndex |-> rowsCount - 1,
   scrollJumpedY |-> FALSE]

\* a variant that only keeps scrollY from going below 0
ResolveScrollFromZero(s, range, anchor, maxScrollY) ==
  LET scrollY == IF rowsCount > 0
                 THEN s.rowHeights[range.firstViewportIdx] - s.firstRowOffset
                 ELSE 0
  IN [s EXCEPT !.maxScrollY = maxScrollY,
               !.scrollY = Max(scrollY, 0),
               !.scrollJumpedY = (anchor.scrollJumpedY = TRUE) /\ (scrollY # s.scrollY)]

\* scrollY and scrollJumpedY from the row offsets, then the clamp
ResolveScroll(s, range, anchor, maxScrollY) ==
  LET scrollY == IF rowsCount > 0
                 THEN s.rowHeights[range.firstViewportIdx] - s.firstRowOffset
                 ELSE 0
  IN [s EXCEPT !.maxScrollY = maxScrollY,
               !.scrollY = clamp(scrollY, 0, maxScrollY),
               !.scrollJumpedY = (anchor.scrollJumpedY = TRUE) /\ (scrollY # s.scrollY)]

\* the call from the first resolution r1 on
RenderRows(r1, anchor, scrolling) ==
  LET maxScrollY == r1.state.scrollContentHeight - bodyHeightOf(r1.state)
      reresolved == maxScrollY = 0 /\ r1.rowRange.firstViewportIdx > 0
  IN Only({
       Only({[newState |-> ResolveScroll(o.state, r2.rowRange, anchor, maxScrollY),
              rowRange |-> r2.rowRange,
              rowsShared |-> o.rowsShared,
              slots |-> [evicted |-> o.evicted, unfound |-> o.unfound],
              resolved |-> [lastIndex |-> r2.lastIndex, totalHeight |-> r2.totalHeight,
                            walkedFirstIdx |-> r2.walkedFirstIdx,
                            firstRowIndex |-> r2.state.firstRowIndex,
                            firstRowOffset |-> r2.state.firstRowOffset,
                            reresolved |-> reresolved]] :
             o \in {computeRenderedRowOffsets(
                      IF maxScrollY = 0 THEN [r2.state EXCEPT !.firstRowOffset = 0]
                      ELSE r2.state,
                      r2.rowRange, scrolling)}}) :
       r2 \in {IF reresolved THEN calculateRenderedRowRange(r1.state, FitAnchor) ELSE r1}})

\* s is the shallow copy of the input state; storedHeights and bufferSet are the
\* objects it shares with it
computeRenderedRows(s, anchor) ==
  Only({RenderRows(r1, anchor, s.scrolling) : r1 \in {calculateRenderedRowRange(s, anchor)}})

\* ---- the table session ---------------------------------------------------

\* Object.assign({}, state): the copy shares storedHeights and bufferSet
ShallowCopy(st, heights, bs) ==
  [rows |-> st.rows, rowHeights |-> st.rowHeights,
   firstRowIndex |-> st.firstRowIndex, firstRowOffset |-> st.firstRowOffset,
   scrollY |-> st.scrollY, maxScrollY |-> st.maxScrollY,
   scrollJumpedY |-> st.scrollJumpedY, scrolling |-> st.scrolling,
   scrollContentHeight |-> st.scrollContentHeight,
   storedHeights |-> heights, bufferSet |-> bs]

\* the fields a state object holds by value
ByValue(s) ==
  [rows |-> s.rows, rowHeights |-> s.rowHeights,
   firstRowIndex |-> s.firstRowIndex, firstRowOffset |-> s.firstRowOffset,
   scrollY |-> s.scrollY, maxScrollY |-> s.maxScrollY,
   scrollJumpedY |-> s.scrollJumpedY, scrolling |-> s.scrolling,
   scrollContentHeight |-> s.scrollContentHeight]

\* the anchors of scrollTo (a first row and its offset) and of scrollToRow (a last
\* row), with scrollJumpedY among jumps; index rowsCount is the anchor past the end
Anchors(jumps) ==
  {[firstIndex |-> i, firstOffset |-> -d, lastIndex |-> Undefined, scrollJumpedY |-> j] :
     i \in 0 .. (rowsCount - 1), d \in 0 .. MaxOffset, j \in jumps}
  \cup
  {[firstIndex |-> rowsCount, firstOffset |-> 0, lastIndex |-> Undefined,
    scrollJumpedY |-> j] : j \in jumps}
  \cup
  {[firstIndex |-> Undefined, firstOffset |-> 0, lastIndex |-> l, scrollJumpedY |-> j] :
     l \in 0 .. rowsCount, j \in jumps}

\* no call has been made yet: an anchor that names no row, which no call takes
NoAnchor ==
  [firstIndex |-> Undefined, firstOffset |-> 0, lastIndex |-> Undefined,
   scrollJumpedY |-> FALSE]

NoResolution ==
  [lastIndex |-> Undefined, totalHeight |-> 0, walkedFirstIdx |-> 0,
   firstRowIndex |-> 0, firstRowOffset |-> 0, reresolved |-> FALSE]

\* a table that has rendered nothing yet: every height is the estimate rowHeight
FreshTable(rowHeight) ==
  /\ storedHeights = [r \in 0 .. (rowsCount - 1) |-> rowHeight]
  /\ bufferSet = [r \in RowKeys |-> Undefined]
  /\ newState = [rows |-> EmptyArray,
                 rowHeights |-> EmptyObject,
                 firstRowIndex |-> 0, firstRowOffset |-> 0,
                 scrollY |-> 0, maxScrollY |-> 0,
                 scrollJumpedY |-> FALSE, scrolling |-> FALSE,
                 scrollContentHeight |-> rowsCount * rowHeight]
  /\ rowsShared = FALSE
  /\ scrollAnchor = NoAnchor
  /\ rowRange = EmptyRange
  /\ resolved = NoResolution
  /\ retained = {}
  /\ twice = newState
  /\ measured = FALSE
  /\ slots = [evicted |-> {}, unfound |-> FALSE]

\* a table whose rows have all been removed (rowsCount is 0): the pool, the rows
\* array and the offsets still hold the n rows that were rendered last
LeftoverTable(n) ==
  /\ storedHeights = [r \in Rows |-> 1]
  /\ bufferSet = [r \in RowKeys |-> IF r < n THEN r ELSE Undefined]
  /\ newState = [rows |-> [i \in 1 .. n |-> i - 1],
                 rowHeights |-> [r \in RowKeys |-> IF r < n THEN r ELSE Undefined],
                 firstRowIndex |-> 0, firstRowOffset |-> 0,
                 scrollY |-> n - 1, maxScrollY |-> n - 1,
                 scrollJumpedY |-> FALSE, scrolling |-> FALSE,
                 scrollContentHeight |-> 0]
  /\ rowsShared = FALSE
  /\ scrollAnchor = NoAnchor
  /\ rowRange = EmptyRange
  /\ resolved = NoResolution
  /\ retained = {}
  /\ twice = newState
  /\ measured = FALSE
  /\ slots = [evicted |-> {}, unfound |-> FALSE]

\* the rows that alternate between the two heights, from row 0 or from row 1
Alternating(n, first) ==
  [r \in 0 .. (n - 1) |-> IF r % 2 = first THEN 1 ELSE MaxHeight]

\* a table of MaxRows rows of alternating heights, or an empty table; the
\* viewport with and without the room a horizontal scrollbar takes
Init ==
  /\ rowsCount \in {0, MaxRows}
  /\ rowHeightGetter \in {Alternating(rowsCount, 0), Alternating(rowsCount, 1)}
  /\ bufferRowCount \in 0 .. MaxBufferRows
  /\ maxAvailableHeight = MaxViewport
  /\ availableHeight \in {MaxViewport - MaxScrollbar, MaxViewport}
  /\ FreshTable(1)

\* one call computeRenderedRows(input, anchor), and the look at what the same
\* call would return next
Call(input, anchor) ==
  \E c \in {computeRenderedRows(ShallowCopy(input, storedHeights, bufferSet), anchor)} :
  \E again \in {computeRenderedRows(
                  ShallowCopy(IF c.rowsShared THEN [input EXCEPT !.rows = c.newState.rows]
                              ELSE input,
                              c.newState.storedHeights, c.newState.bufferSet),
                  anchor)} :
     /\ scrollAnchor' = anchor
     /\ newState' = ByValue(c.newState)
     /\ rowsShared' = c.rowsShared
     /\ storedHeights' = c.newState.storedHeights
     /\ bufferSet' = c.newState.bufferSet
     /\ rowRange' = c.rowRange
     /\ resolved' = c.resolved
     /\ retained' = {<<r, bufferSet[r]>> : r \in
                       {q \in Occupants(bufferSet) :
                          /\ inRange(q, rowRange.firstBufferIdx, rowRange.endBufferIdx)
                          /\ inRange(q, c.rowRange.firstBufferIdx, c.rowRange.endBufferIdx)}}
     /\ twice' = ByValue(again.newState)
     /\ measured' = (c.newState.storedHeights # storedHeights)
     /\ slots' = c.slots
     /\ UNCHANGED <<rowsCount, rowHeightGetter, bufferRowCount, maxAvailableHeight,
                    availableHeight>>

\* the reducer handles an action: the state the last call returned, with the
\* scrolling flag of the moment, is the input of the next call
Dispatch(jumps) ==
  \E anchor \in Anchors(jumps), scrolling \in BOOLEAN :
    Call([newState EXCEPT !.scrolling = scrolling], anchor)

\* a session of calls whose anchors all ask for the jump signal
Render == Dispatch({TRUE})

Next == Render

Spec == Init /\ [][Next]_vars

\* ---- one call on a table that has rendered nothing -----------------------

\* any table of up to MaxRows rows: every assignment of heights, every estimate;
\* an empty table may be one that has just lost its rows
InitCall ==
  /\ rowsCount \in 0 .. MaxRows
  /\ rowHeightGetter \in [0 .. (rowsCount - 1) -> 1 .. MaxHeight]
  /\ bufferRowCount \in 0 .. MaxBufferRows
  /\ maxAvailableHeight \in (MaxViewport - 1) .. MaxViewport
  /\ availableHeight \in {maxAvailableHeight - d : d \in 0 .. MaxScrollbar} \cap (1 .. MaxViewport)
  /\ \/ \E rowHeight \in 1 .. MaxHeight : FreshTable(rowHeight)
     \/ rowsCount = 0 /\ \E n \in 1 .. MaxLeftover : LeftoverTable(n)

FirstCall ==
  /\ scrollAnchor = NoAnchor
  /\ Dispatch(BOOLEAN)

NextCall == FirstCall

SpecCall == InitCall /\ [][NextCall]_vars

\* ---- the revision with a separate pass over the viewport (part_000) ------

\* one turn of the loop of computeViewPortRenderedRowOffsets for row rowIdx; the
\* row past the end of the table has no stored height: the running offset is
\* then not a number, and it is the last turn of the loop; evicted and unfound
\* record what the allocator was seen to do, as in WalkRow
WalkViewPortRow(acc, rowIdx, range, heights) ==
  Only({[bufferSet |-> a.bufferSet,
         bufferMapping |-> ArraySet(acc.bufferMapping, a.position, rowIdx),
         rowOffsetsCache |-> [acc.rowOffsetsCache EXCEPT ![rowIdx] = acc.runningOffset],
         runningOffset |-> IF rowIdx \in DOMAIN heights
                           THEN acc.runningOffset + heights[rowIdx]
                           ELSE Undefined,
         evicted |-> acc.evicted \cup (Occupants(acc.bufferSet) \ Occupants(a.bufferSet)),
         unfound |-> \/ acc.unfound
                     \/ /\ getSize(a.bufferSet) > getSize(acc.bufferSet)
                        /\ getSize(acc.bufferSet)
                             >= range.endBufferIdx - range.firstBufferIdx] :
        a \in {addRowToBuffer(rowIdx, acc.bufferSet, range.firstViewportIdx,
                              range.endViewportIdx,
                              range.endBufferIdx - range.firstBufferIdx)}})

\* the loop over rows rowIdx .. endViewportIdx, endViewportIdx included
RECURSIVE WalkViewPortRows(_, _, _, _)
WalkViewPortRows(acc, rowIdx, range, heights) ==
  IF rowIdx <= range.endViewportIdx
  THEN Only({WalkViewPortRows(next, rowIdx + 1, range, heights) :
             next \in {WalkViewPortRow(acc, rowIdx, range, heights)}})
  ELSE acc

\* the rows in both the old and the new mapping keep their previous offset
UnchangedRows(rowOffsetsCache, bufferMapping, bufferMappingOld, rowOffsetsCacheOld) ==
  [r \in DOMAIN rowOffsetsCache |->
     IF r \in ArrayValues(bufferMapping) \cap ArrayValues(bufferMappingOld)
     THEN rowOffsetsCacheOld[r]
     ELSE rowOffsetsCache[r]]

\* writes the rows of the viewport into the rows array the state had on entry
computeViewPortRenderedRowOffsets(s, range) ==
  IF range.endBufferIdx - range.firstBufferIdx = 0
  THEN [state |-> [s EXCEPT !.rowHeights = EmptyObject, !.rows = EmptyArray],
        rowsShared |-> FALSE, evicted |-> {}, unfound |-> FALSE]
  ELSE
    Only({[state |-> [s EXCEPT !.rowHeights = UnchangedRows(acc.rowOffsetsCache,
                                                acc.bufferMapping, s.rows, s.rowHeights),
                               !.rows = acc.bufferMapping,
                               !.bufferSet = acc.bufferSet],
           rowsShared |-> TRUE,
           evicted |-> acc.evicted, unfound |-> acc.unfound] :
          acc \in {WalkViewPortRows(
                     [bufferSet |-> s.bufferSet,
                      bufferMapping |-> s.rows,
                      rowOffsetsCache |-> EmptyObject,
                      runningOffset |-> sumUntil(s.storedHeights, range.firstBufferIdx),
                      evicted |-> {}, unfound |-> FALSE],
                     range.firstViewportIdx, range, s.storedHeights)}})

\* scrollY starts from the scrollY of the input state
ResolveScrollViewPort(s, range, anchor, maxScrollY) ==
  LET scrollY == IF rowsCount > 0
                 THEN s.rowHeights[range.firstViewportIdx] - s.firstRowOffset
                 ELSE s.scrollY
  IN [s EXCEPT !.maxScrollY = maxScrollY,
               !.scrollY = clamp(scrollY, 0, maxScrollY),
               !.scrollJumpedY = (anchor.scrollJumpedY = TRUE) /\ (scrollY # s.scrollY)]

\* the call from the first resolution r1 on: the pass over the viewport while
\* scrolling, the second resolution otherwise, then the pass over the whole range;
\* inputRows is the rows array of the input state as the call leaves it, slots
\* what the allocator did over both passes
RenderRowsViewPort(r1, anchor, scrolling) ==
  LET maxScrollY == r1.state.scrollContentHeight - bodyHeightOf(r1.state)
      reresolved == ~scrolling /\ maxScrollY = 0 /\ r1.rowRange.firstViewportIdx > 0
  IN Only({
       Only({
         Only({[newState |-> ResolveScrollViewPort(o.state, r2.rowRange, anchor, maxScrollY),
                rowRange |-> r2.rowRange,
                rowsShared |-> FALSE,
                inputRows |-> IF v.rowsShared THEN v.state.rows ELSE r1.state.rows,
                slots |-> [evicted |-> v.evicted \cup o.evicted,
                           unfound |-> v.unfound \/ o.unfound],
                resolved |-> [lastIndex |-> r2.lastIndex, totalHeight |-> r2.totalHeight,
                              walkedFirstIdx |-> r2.walkedFirstIdx,
                              firstRowIndex |-> r2.state.firstRowIndex,
                              firstRowOffset |-> r2.state.firstRowOffset,
                              reresolved |-> reresolved]] :
               o \in {computeRenderedRowOffsets(v.state, r2.rowRange, FALSE)}}) :
         v \in {IF scrolling
                THEN computeViewPortRenderedRowOffsets(r2.state, r2.rowRange)
                ELSE [state |-> IF maxScrollY = 0
                                THEN [r2.state EXCEPT !.firstRowOffset = 0]
                                ELSE r2.state,
                      rowsShared |-> FALSE, evicted |-> {}, unfound |-> FALSE]}}) :
       r2 \in {IF reresolved THEN calculateRenderedRowRange(r1.state, FitAnchor) ELSE r1}})

\* computeRenderedRows of this revision
computeRenderedRowsViewPort(s, anchor) ==
  Only({RenderRowsViewPort(r1, anchor, s.scrolling) :
        r1 \in {calculateRenderedRowRange(s, anchor)}})

\* one call of this revision, and the look at what the same call would return next
CallViewPort(input, anchor) ==
  \E c \in {computeRenderedRowsViewPort(ShallowCopy(input, storedHeights, bufferSet),
                                         anchor)} :
  \E again \in {computeRenderedRowsViewPort(
                  ShallowCopy([input EXCEPT !.rows = c.inputRows],
                              c.newState.storedHeights, c.newState.bufferSet),
                  anchor)} :
     /\ scrollAnchor' = anchor
     /\ newState' = ByValue(c.newState)
     /\ rowsShared' = c.rowsShared
     /\ storedHeights' = c.newState.storedHeights
     /\ bufferSet' = c.newState.bufferSet
     /\ rowRange' = c.rowRange
     /\ resolved' = c.resolved
     /\ retained' = {<<r, bufferSet[r]>> : r \in
                       {q \in Occupants(bufferSet) :
                          /\ inRange(q, rowRange.firstBufferIdx, rowRange.endBufferIdx)
                          /\ inRange(q, c.rowRange.firstBufferIdx, c.rowRange.endBufferIdx)}}
     /\ twice' = ByValue(again.newState)
     /\ measured' = (c.newState.storedHeights # storedHeights)
     /\ slots' = c.slots
     /\ UNCHANGED <<rowsCount, rowHeightGetter, bufferRowCount, maxAvailableHeight,
                    availableHeight>>

RenderViewPort ==
  \E anchor \in Anchors({TRUE}), scrolling \in BOOLEAN :
    CallViewPort([newState EXCEPT !.scrolling = scrolling], anchor)

NextViewPort == RenderViewPort

SpecViewPort == Init /\ [][NextViewPort]_vars

\* ---- the claims -----------------------------------------------------------

RangeRows == rowRange.firstBufferIdx .. (rowRange.endBufferIdx - 1)

\* a call has been made
Called == scrollAnchor # NoAnchor

\* C1: the row range of every call is ordered and inside the table:
\* 0 <= firstBufferIdx <= firstViewportIdx <= endViewportIdx <= endBufferIdx <= rowsCount
C1_RangeOrdered ==
  /\ 0 <= rowRange.firstBufferIdx
  /\ rowRange.firstBufferIdx <= rowRange.firstViewportIdx
  /\ rowRange.firstViewportIdx <= rowRange.endViewportIdx
  /\ rowRange.endViewportIdx <= rowRange.endBufferIdx
  /\ rowRange.endBufferIdx <= rowsCount

\* a range resolved a second time because maxScrollY is 0, backward from the last
\* row, with the step past the first walked row
C1_Witness ==
  /\ Called
  /\ resolved.reresolved
  /\ rowRange.firstViewportIdx = resolved.walkedFirstIdx + 1
  /\ rowRange.endBufferIdx = rowsCount

\* C2: after a call in full mode the rows array holds exactly the rows of the range
C2_FullRowsAreRange ==
  (Called /\ ~newState.scrolling) => ArrayValues(newState.rows) = RangeRows

\* C3: a row of the range before and of the new range that held a slot holds
\* the same slot after the call
C3_SlotsStable ==
  \A e \in retained : bufferSet[e[1]] = e[2]

\* C4: a call leaves the rows array of the state passed in as it was: when the
\* array returned is that very array, it holds what the input state held
C4_InputRowsUnchanged ==
  [][rowsShared' => newState'.rows = newState.rows]_vars

\* what a caller reads of the returned state
Rendered(s) ==
  <<s.rows, s.rowHeights, s.firstRowIndex, s.firstRowOffset, s.scrollY, s.maxScrollY,
    s.scrollJumpedY>>

\* C5: a call that changed no stored height, made once more with the same anchor
\* and the same input state, returns the same rendered state
C5_Idempotent ==
  ~measured => Rendered(twice) = Rendered(newState)

\* the sum of the stored heights of rows from .. to
RECURSIVE HeightOfRows(_, _)
HeightOfRows(from, to) ==
  IF from > to THEN 0 ELSE storedHeights[from] + HeightOfRows(from + 1, to)

\* C6: a backward resolution whose walked rows fill the viewport puts the bottom
\* edge of row lastIndex at the bottom of the viewport
C6_LastRowAtBottom ==
  (Called /\ resolved.lastIndex # Undefined /\ resolved.totalHeight >= availableHeight)
    => resolved.firstRowOffset + HeightOfRows(resolved.firstRowIndex, resolved.lastIndex)
         = availableHeight

\* C7 as claimed: without lastIndex the returned first row and offset are the anchor's
C7_ForwardAnchorKept ==
  (Called /\ scrollAnchor.lastIndex = Undefined)
    => /\ newState.firstRowIndex = scrollAnchor.firstIndex
       /\ newState.firstRowOffset = scrollAnchor.firstOffset

\* C7 as amended: without lastIndex and with firstIndex inside the table, the
\* returned first row and offset are the anchor's unless maxScrollY is 0; when
\* maxScrollY is 0 the offset is 0 and an anchor at row 0 keeps row 0
C7_ForwardAnchorKeptInRange ==
  (Called /\ scrollAnchor.lastIndex = Undefined /\ scrollAnchor.firstIndex < rowsCount)
    => IF newState.maxScrollY # 0
       THEN /\ newState.firstRowIndex = scrollAnchor.firstIndex
            /\ newState.firstRowOffset = scrollAnchor.firstOffset
       ELSE /\ newState.firstRowOffset = 0
            /\ scrollAnchor.firstIndex = 0 => newState.firstRowIndex = 0

\* a forward anchor at the last row, part of it above the viewport, in a table
\* that scrolls
C7_Witness ==
  /\ Called
  /\ scrollAnchor.lastIndex = Undefined
  /\ rowsCount > 1
  /\ scrollAnchor.firstIndex = rowsCount - 1
  /\ scrollAnchor.firstOffset < 0
  /\ newState.maxScrollY > 0
  /\ newState.firstRowIndex = rowsCount - 1

\* C8: the returned scrollY is in [0, maxScrollY]
C8_ScrollYClamped ==
  0 <= newState.scrollY /\ newState.scrollY <= newState.maxScrollY

\* a call whose scrollY before the clamp is above maxScrollY
C8_Witness ==
  /\ Called
  /\ rowsCount > 0
  /\ newState.maxScrollY > 0
  /\ newState.rowHeights[rowRange.firstViewportIdx] - newState.firstRowOffset
       > newState.maxScrollY
  /\ newState.scrollY = newState.maxScrollY

\* C9: scrollJumpedY is returned true only for an anchor that asks for it and a
\* returned scrollY that differs from the scrollY of the state passed in
C9_JumpOnlyOnChange ==
  [][newState'.scrollJumpedY =>
       (scrollAnchor'.scrollJumpedY /\ newState'.scrollY # newState.scrollY)]_vars

\* C10: when everything fits (maxScrollY = 0) no row is left above the window
C10_FitsFromTop ==
  (Called /\ rowsCount > 0 /\ newState.maxScrollY = 0)
    => /\ newState.firstRowOffset = 0
       /\ newState.scrollY = 0
       /\ (sumUntil(rowHeightGetter, rowsCount) <= maxAvailableHeight
             => newState.firstRowIndex = 0)

\* the capacity in force for the last call: maxBufferSize of addRowToBuffer
Capacity == rowRange.endBufferIdx - rowRange.firstBufferIdx

\* C11: after every call the pool holds at most as many rows as the capacity of
\* that call
C11_PoolWithinCapacity ==
  Called => getSize(bufferSet) <= Capacity

\* C12: no row finds the pool full and nothing to evict: a new slot is taken only
\* while the pool holds fewer rows than the capacity
C12_EvictionFindsVictim ==
  ~slots.unfound

\* a call that evicted a row from a full pool
C12_Witness ==
  /\ Called
  /\ slots.evicted # {}
  /\ getSize(bufferSet) >= Capacity

\* C13: a call on a table without rows returns rows = [], rowHeights = {} and
\* scrollY = 0, whatever the state before, and leaves the pool as it was
C13_EmptyTable ==
  [][rowsCount = 0 =>
       /\ newState'.rows = EmptyArray
       /\ Keys(newState'.rowHeights) = {}
       /\ newState'.scrollY = 0
       /\ bufferSet' = bufferSet]_vars

\* a call on an emptied table whose pool still holds the rows rendered before
C13_Witness ==
  /\ Called
  /\ rowsCount = 0
  /\ getSize(bufferSet) > 0
  /\ newState.rows = EmptyArray
  /\ rowRange = EmptyRange

\* C14: every row evicted during a call lies outside the range of the call
C14_EvictedOutsideRange ==
  Called => slots.evicted \cap RangeRows = {}

\* C15 as claimed: the buffer of the returned range is bufferRowCount rows on each
\* side of the returned viewport, cut at the ends of the table
C15_BufferAroundViewport ==
  (Called /\ rowsCount > 0)
    => /\ rowRange.firstBufferIdx = Max(rowRange.firstViewportIdx - bufferRowCount, 0)
       /\ rowRange.endBufferIdx = Min(rowRange.endViewportIdx + bufferRowCount, rowsCount)

\* C15 as amended: the leading buffer is bufferRowCount rows before the first
\* walked row, which is the returned firstViewportIdx or, on the backward path
\* only, the row before it; the trailing buffer is as claimed
C15_BufferAroundWalkedRows ==
  (Called /\ rowsCount > 0)
    => /\ rowRange.firstBufferIdx = Max(resolved.walkedFirstIdx - bufferRowCount, 0)
       /\ rowRange.endBufferIdx = Min(rowRange.endViewportIdx + bufferRowCount, rowsCount)
       /\ \/ rowRange.firstViewportIdx = resolved.walkedFirstIdx
          \/ /\ rowRange.firstViewportIdx = resolved.walkedFirstIdx + 1
             /\ resolved.lastIndex # Undefined

\* a backward resolution that stepped past its first walked row, with a leading
\* buffer that does not start at row 0
C15_Witness ==
  /\ Called
  /\ bufferRowCount > 0
  /\ rowRange.firstViewportIdx = resolved.walkedFirstIdx + 1
  /\ rowRange.firstBufferIdx > 0
  /\ rowRange.firstBufferIdx = rowRange.firstViewportIdx - bufferRowCount - 1

\* C16: a backward resolution leaves the first row of the viewport inside the
\* table and partly on screen: 0 <= -firstRowOffset < height(firstRowIndex)
C16_FirstRowOnScreen ==
  (Called /\ rowsCount > 0 /\ resolved.lastIndex # Undefined)
    => /\ resolved.firstRowIndex < rowsCount
       /\ 0 <= -1 * resolved.firstRowOffset
       /\ -1 * resolved.firstRowOffset < storedHeights[resolved.firstRowIndex]

\* C17: after a call with a non-empty range, with or without scrolling, the
\* offset returned for every row of the range is the sum of the heights of the
\* rows before it, and scrollY is the offset of the first viewport row minus
\* firstRowOffset, clamped
C17_OffsetsAreCumulative ==
  (Called /\ RangeRows # {})
    => /\ \A r \in RangeRows : newState.rowHeights[r] = sumUntil(storedHeights, r)
       /\ rowsCount > 0
            => newState.scrollY
                 = clamp(sumUntil(storedHeights, rowRange.firstViewportIdx)
                           - newState.firstRowOffset,
                         0, newState.maxScrollY)

\* a call while scrolling that measured rows, on a range of several rows that
\* does not start at row 0
C17_Witness ==
  /\ Called /\ newState.scrolling /\ measured
  /\ rowRange.firstBufferIdx > 0
  /\ Cardinality(RangeRows) >= 2
  /\ newState.rowHeights[rowRange.endBufferIdx - 1]
       = sumUntil(storedHeights, rowRange.endBufferIdx - 1)
  /\ newState.rowHeights[rowRange.endBufferIdx - 1] > rowRange.endBufferIdx - 1

\* the rows that hold a slot of the returned rows array
RowsReturned == ArrayValues(newState.rows)

\* C18: a call while scrolling returns, for every row of the returned rows array
\* outside the range, the offset the input state had for it, and no offset for a
\* row that is neither in the range nor in the returned rows array
C18_CarriedOffsets ==
  [][newState'.scrolling
       => /\ \A r \in RowsReturned' \ RangeRows' :
               newState'.rowHeights[r] = newState.rowHeights[r]
          /\ Keys(newState'.rowHeights) \subseteq (RangeRows' \cup RowsReturned')]_vars

\* a call while scrolling has kept a row outside the range in the rows array, with
\* an offset that is no longer the sum of the heights before it, and has returned
\* no offset for a row that lost its slot
C18_Witness ==
  /\ Called /\ newState.scrolling
  /\ \E r \in RowsReturned \ RangeRows :
        /\ newState.rowHeights[r] # Undefined
        /\ newState.rowHeights[r] # sumUntil(storedHeights, r)
  /\ \E q \in slots.evicted : newState.rowHeights[q] = Undefined

\* C19: after any sequence of calls, with and without scrolling, every row of the
\* returned rows array has an offset in the returned rowHeights
C19_RowsHaveOffsets == Called => RowsReturned \subseteq Keys(newState.rowHeights)

\* a call while scrolling returned a rows array that holds a row outside the
\* range and leaves a row of the range without a slot
C19_Witness ==
  /\ Called /\ newState.scrolling
  /\ RowsReturned \ RangeRows # {}
  /\ RangeRows \ RowsReturned # {}
  /\ RowsReturned \subseteq Keys(newState.rowHeights)

\* the rows of the viewport of the last call
ViewportRows == rowRange.firstViewportIdx .. (rowRange.endViewportIdx - 1)

\* C20: after any sequence of calls, with and without scrolling, every row of the
\* viewport of the call holds a slot of the returned rows array
C20_ViewportRowsHaveSlots == Called => ViewportRows \subseteq RowsReturned

\* a call on a viewport of several rows took slots away from rows, one of them
\* a row of the range, and every row of the viewport holds a slot
C20_Witness ==
  /\ Called
  /\ Cardinality(ViewportRows) >= 2
  /\ slots.evicted \cap RangeRows # {}
  /\ ViewportRows \subseteq RowsReturned

\* C21: after any sequence of calls, with and without scrolling, the returned
\* rows array agrees with the allocator: a row held in slot p of the array is
\* mapped to slot p by the allocator, so no row is held in two slots
C21_RowsAgreeWithAllocator ==
  Called
    => \A i \in 1 .. Len(newState.rows) :
         newState.rows[i] # Undefined
           => getValuePosition(bufferSet, newState.rows[i]) = i - 1

\* a call while scrolling wrote into the rows array of the input state, took a
\* slot away from a row, and left in the array a row outside the range, in the
\* slot the allocator maps it to
C21_Witness ==
  /\ Called /\ newState.scrolling /\ rowsShared
  /\ slots.evicted # {}
  /\ \E i \in 1 .. Len(newState.rows) :
        /\ newState.rows[i] # Undefined
        /\ newState.rows[i] \notin RangeRows
        /\ getValuePosition(bufferSet, newState.rows[i]) = i - 1

====
